---- MODULE Spec2Model ----
(***************************************************************************)
(* A model of the Slack photo-update script: the connection manager's      *)
(* debounce table and the remote operations built on it                    *)
(* (utils/slack_connector.py), and the photo-update processor              *)
(* (core/update_photo.py) reading its instruction file                     *)
(* (utils/csv_manager.py).                                                 *)
(*                                                                         *)
(* Time is counted in milliseconds: datetime.now(UTC) is the variable      *)
(* now, 60 / rate seconds is 60000 \div rate, the one second pad is 1000.  *)
(* Text that the code takes apart (workspace names, e-mail addresses) is a *)
(* sequence of one-character strings.                                      *)
(***************************************************************************)
EXTENDS Integers, Sequences, FiniteSets, TLC

VARIABLES
    now,            \* the wall clock, datetime.now(UTC), in milliseconds
    debounce_data,  \* SlackConnectionManager._debounce_data: key -> timestamp
    proceeded,      \* history: key -> when its last _debounce call returned
    last_debounce,  \* history: what the most recent _debounce call saw and did
    calls,          \* history: the remote calls issued by the last invocation
    result,         \* history: how the last client operation ended
    teams,          \* the remote's team list: sequence of [name, id]
    file,           \* the instruction file: sequence of data rows
    row_idx,        \* update_user_photo_processor: rows consumed so far
    pc,             \* update_user_photo_processor: "run", "done" or "crashed"
    attempts,       \* history: per consumed row, what the processor did
    workspace_calls, \* history: the create_workspace_in_slack invocations
    yielded,        \* history: the entries a read accessor has yielded
    scope,          \* where the caller is with respect to open_for_writing
    current_file,   \* CSVInstructionManager._current_file
    csv_dict_writer, \* CSVInstructionManager._csv_dict_writer
    written         \* the lines of the file as written through the manager

vars == <<now, debounce_data, proceeded, last_debounce, calls, result, teams,
          file, row_idx, pc, attempts, workspace_calls, yielded, scope,
          current_file, csv_dict_writer, written>>

managerVars == <<yielded, scope, current_file, csv_dict_writer, written>>

----------------------------------------------------------------------------
(* Bounds of the model.                                                    *)

MaxTime == 6000
MaxRows == 3
MaxOps == 2

\* How long before an operation reaches its _debounce call (milliseconds).
Delays == {0, 1000, 1200, 3000}

\* asyncio.sleep(s) suspends for at least s: by how much longer.
Oversleep == {0, 500}

\* The same two inputs for the operations that wrap a remote call: the time
\* between two operations, and a sleep that ends on time.
Latency == {0, 3000}

OnTime == {0}

None == "None"

----------------------------------------------------------------------------
(* SlackConnectionManager._debounce                                        *)

\* The rate limit each call site passes with its key.
RateLimit(function_name) ==
    CASE function_name = "create_user"        -> 20
      [] function_name = "scim_search_users"  -> 20
      [] function_name = "patch_user"         -> 20
      [] function_name = "admin_teams_list"   -> 50
      [] function_name = "admin_teams_create" -> 1

NoDebounce ==
    [called |-> FALSE, key |-> None, rate |-> 0, had |-> FALSE, prev |-> 0,
     prev_returned |-> 0, arrived |-> 0, slept |-> FALSE, sleep_time |-> 0,
     returned |-> 0]

\* As _debounce, with the comparison of line 75 off by one (<= for <).
DebounceSleepsOnEqual(data, function_name, rate_limit_per_minute, t, over) ==
    IF function_name \notin DOMAIN data
    THEN [data |-> (function_name :> t) @@ data,
          slept |-> FALSE, sleep_time |-> 0, returned |-> t]
    ELSE LET current_time == t
             time_since_last_call == current_time - data[function_name]
             sleep_time == (60000 \div rate_limit_per_minute)
                           - time_since_last_call + 1000
         IN  IF time_since_last_call * rate_limit_per_minute <= 60000
             THEN [data |-> (function_name :> current_time) @@ data,
                   slept |-> TRUE, sleep_time |-> sleep_time,
                   returned |-> current_time + sleep_time + over]
             ELSE [data |-> (function_name :> current_time) @@ data,
                   slept |-> FALSE, sleep_time |-> 0,
                   returned |-> current_time]

\* _debounce(function_name, rate_limit_per_minute) entered at time t with the
\* table data; over is how much longer than asked asyncio.sleep took.
\* Gives the table afterwards, whether it slept, and the time it returns.
_debounce(data, function_name, rate_limit_per_minute, t, over) ==
    IF function_name \notin DOMAIN data
    THEN [data |-> (function_name :> t) @@ data,
          slept |-> FALSE, sleep_time |-> 0, returned |-> t]
    ELSE LET current_time == t
             time_since_last_call == current_time - data[function_name]
             sleep_time == (60000 \div rate_limit_per_minute)
                           - time_since_last_call + 1000
         IN  IF time_since_last_call * rate_limit_per_minute < 60000
             THEN [data |-> (function_name :> current_time) @@ data,
                   slept |-> TRUE, sleep_time |-> sleep_time,
                   returned |-> current_time + sleep_time + over]
             ELSE [data |-> (function_name :> current_time) @@ data,
                   slept |-> FALSE, sleep_time |-> 0,
                   returned |-> current_time]

\* The client's clock, table and debounce history as one value, so that an
\* operation that debounces more than once can thread it through.
Clock ==
    [now |-> now, data |-> debounce_data, proceeded |-> proceeded,
     last |-> last_debounce]

\* One `await self._debounce(k, r)` reached d milliseconds after c.now.
Await_debounce(c, function_name, d, over) ==
    LET t == c.now + d
        r == RateLimit(function_name)
        had == function_name \in DOMAIN c.data
        res == _debounce(c.data, function_name, r, t, over)
    IN  [now  |-> res.returned,
         data |-> res.data,
         proceeded |-> (function_name :> res.returned) @@ c.proceeded,
         last |-> [called |-> TRUE, key |-> function_name, rate |-> r,
                   had |-> had,
                   prev |-> IF had THEN c.data[function_name] ELSE 0,
                   prev_returned |->
                       IF had THEN c.proceeded[function_name] ELSE 0,
                   arrived |-> t, slept |-> res.slept,
                   sleep_time |-> res.sleep_time, returned |-> res.returned]]

SetClock(c) ==
    /\ now' = c.now
    /\ debounce_data' = c.data
    /\ proceeded' = c.proceeded
    /\ last_debounce' = c.last

----------------------------------------------------------------------------
(* The debounce table on its own: a client whose operations reach          *)
(* _debounce at arbitrary times.                                           *)

DebounceKeys == {"scim_search_users", "admin_teams_list"}

EmptyTable == [k \in {} |-> 0]

\* CSVInstructionManager.__init__: nothing open, nothing read or written.
InitManager ==
    /\ yielded = <<>>
    /\ scope = "before"
    /\ current_file = None
    /\ csv_dict_writer = None
    /\ written = <<>>

InitIdle ==
    /\ calls = <<>>
    /\ result = [op |-> None]
    /\ teams = <<>>
    /\ file = <<>>
    /\ row_idx = 0
    /\ pc = "idle"
    /\ attempts = <<>>
    /\ workspace_calls = <<>>
    /\ InitManager

InitDebounce ==
    /\ now = 0
    /\ debounce_data = EmptyTable
    /\ proceeded = EmptyTable
    /\ last_debounce = NoDebounce
    /\ InitIdle

CallDebounce ==
    \E k \in DebounceKeys, d \in Delays, over \in Oversleep :
        /\ now + d <= MaxTime
        /\ SetClock(Await_debounce(Clock, k, d, over))
        /\ UNCHANGED <<calls, result, teams, file, row_idx, pc, attempts,
                       workspace_calls, managerVars>>

NextDebounce == CallDebounce

SpecDebounce == InitDebounce /\ [][NextDebounce]_vars

----------------------------------------------------------------------------
(* Text helpers: Python's str methods on sequences of characters.          *)

IsSpace(ch) == ch \in {" ", "\t"}

\* str.lstrip()
RECURSIVE lstrip(_)
lstrip(s) ==
    IF s # <<>> /\ IsSpace(Head(s)) THEN lstrip(Tail(s)) ELSE s

\* str.rstrip()
RECURSIVE rstrip(_)
rstrip(s) ==
    IF s # <<>> /\ IsSpace(s[Len(s)])
    THEN rstrip(SubSeq(s, 1, Len(s) - 1))
    ELSE s

\* str.strip()
strip(s) == rstrip(lstrip(s))

\* email.split("@")[0]: the text before the first "@" (all of it if none).
RECURSIVE SplitAtFirst(_)
SplitAtFirst(s) ==
    IF s = <<>> \/ Head(s) = "@" THEN <<>>
    ELSE <<Head(s)>> \o SplitAtFirst(Tail(s))

----------------------------------------------------------------------------
(* Python values returned by the client's operations.                      *)

PyNone == [t |-> "None", id |-> None, active |-> FALSE]

PyDict(u) == [t |-> "dict", id |-> u.id, active |-> u.active]

PyStr(x) == [t |-> "str", id |-> x, active |-> FALSE]

\* bool(value): None is false, a user record (a non-empty dict) and a
\* non-empty str are true.
Truthy(value) == value.t # "None"

Returned(c, cs, value) ==
    [clock |-> c, calls |-> cs, outcome |-> "return", value |-> value,
     error |-> None]

Raised(c, cs, error) ==
    [clock |-> c, calls |-> cs, outcome |-> "raise", value |-> PyNone,
     error |-> error]

----------------------------------------------------------------------------
(* SlackConnectionManager: the SCIM user operations.                       *)

MaxMatches == 2

UserIds == {"U1", "U2"}

RemoteUsers ==
    {[id |-> "U1", active |-> TRUE], [id |-> "U2", active |-> FALSE]}

BoundedSeq(S, n) == UNION {[1..m -> S] : m \in 0..n}

\* What the remote answers to scim search_users: a status and the matches.
SearchResponses ==
    [status_code : {200, 500}, Resources : BoundedSeq(RemoteUsers, MaxMatches)]

\* As search_user, with the test of line 215 off by one (> 2 for > 1).
search_user_two_allowed(c, user_email, response, d, over) ==
    LET c1 == Await_debounce(c, "scim_search_users", d, over)
        cs == <<[api |-> "scim_search_users", arg |-> user_email]>>
        existing_users == response.Resources
    IN  IF response.status_code # 200
        THEN Raised(c1, cs, "TypeError")
        ELSE IF existing_users = <<>>
        THEN Returned(c1, cs, PyNone)
        ELSE IF Len(existing_users) > 2
        THEN Raised(c1, cs, "MultipleUsersWithSameEmailError")
        ELSE Returned(c1, cs, PyDict(existing_users[1]))

\* As search_user, with line 208 doing nothing: after a status other than
\* 200 it goes on with whatever the body holds.
search_user_failure_ignored(c, user_email, response, d, over) ==
    LET c1 == Await_debounce(c, "scim_search_users", d, over)
        cs == <<[api |-> "scim_search_users", arg |-> user_email]>>
        existing_users == response.Resources
    IN  IF existing_users = <<>>
        THEN Returned(c1, cs, PyNone)
        ELSE IF Len(existing_users) > 1
        THEN Raised(c1, cs, "MultipleUsersWithSameEmailError")
        ELSE Returned(c1, cs, PyDict(existing_users[1]))

\* search_user(user_email). On a status other than 200 line 208 raises a
\* str, which Python turns into a TypeError (exceptions must derive from
\* BaseException).
search_user(c, user_email, response, d, over) ==
    LET c1 == Await_debounce(c, "scim_search_users", d, over)
        cs == <<[api |-> "scim_search_users", arg |-> user_email]>>
        existing_users == response.Resources
    IN  IF response.status_code # 200
        THEN Raised(c1, cs, "TypeError")
        ELSE IF existing_users = <<>>
        THEN Returned(c1, cs, PyNone)
        ELSE IF Len(existing_users) > 1
        THEN Raised(c1, cs, "MultipleUsersWithSameEmailError")
        ELSE Returned(c1, cs, PyDict(existing_users[1]))

\* As verify_user_not_exists_in_slack, without the except clause of lines
\* 189-190: the multiple-match error leaves as it is.
verify_user_not_exists_no_widening(c, user_email, response, d, over) ==
    LET s == search_user(c, user_email, response, d, over)
    IN  IF s.outcome = "raise"
        THEN s
        ELSE IF Truthy(s.value)
        THEN Raised(s.clock, s.calls, "UserAlreadyExistsError")
        ELSE Returned(s.clock, s.calls, PyNone)

verify_user_not_exists_in_slack(c, user_email, response, d, over) ==
    LET s == search_user(c, user_email, response, d, over)
    IN  IF s.outcome = "raise"
        THEN IF s.error = "MultipleUsersWithSameEmailError"
             THEN Raised(s.clock, s.calls, "UserAlreadyExistsError")
             ELSE s
        ELSE IF Truthy(s.value)
        THEN Raised(s.clock, s.calls, "UserAlreadyExistsError")
        ELSE Returned(s.clock, s.calls, PyNone)

\* verify_deactivated_user_email(user_email). With no match user_data is
\* None, and line 198 subscripts it: a TypeError.
verify_deactivated_user_email(c, user_email, response, d, over) ==
    LET s == search_user(c, user_email, response, d, over)
        user_data == s.value
    IN  IF s.outcome = "raise"
        THEN s
        ELSE IF Truthy(user_data) /\ user_data.active
        THEN Raised(s.clock, s.calls, "UserIsActiveError")
        ELSE IF user_data.t = "None"
        THEN Raised(s.clock, s.calls, "TypeError")
        ELSE Returned(s.clock, s.calls, PyStr(user_data.id))

\* fill_scim_user: the fields of the payload the model follows.
fill_scim_user(username, display_name, email) ==
    [userName |-> strip(username), displayName |-> strip(display_name),
     email |-> email]

BadUsernameErrors == {"username_invalid", "username_too_long", "username_taken"}

\* What the remote answers to scim create_user: a status, the new id (201)
\* and the words of the error description (400, 409).
CreateResponses ==
    {[status_code |-> 201, id |-> "U1", description |-> <<>>],
     [status_code |-> 400, id |-> None, description |-> <<"username_too_long">>],
     [status_code |-> 409, id |-> None,
      description |-> <<"username_taken", "retry">>],
     [status_code |-> 400, id |-> None, description |-> <<"username_invalid">>],
     [status_code |-> 409, id |-> None, description |-> <<"email_taken">>],
     [status_code |-> 500, id |-> None, description |-> <<>>]}

\* _create_slack_user(scim_user). A 400 or 409 whose error is not one of the
\* three username errors falls off the end of the function: it returns None.
_create_slack_user(c, cs, scim_user, response, d, over) ==
    LET c1 == Await_debounce(c, "create_user", d, over)
        cs1 == Append(cs, [api |-> "create_user", arg |-> scim_user])
    IN  IF response.status_code = 201
        THEN Returned(c1, cs1, PyStr(response.id))
        ELSE IF response.status_code \in {400, 409}
        THEN LET error_type == Head(response.description)
             IN  IF error_type \in BadUsernameErrors
                 THEN Raised(c1, cs1, "BadUsernameError")
                 ELSE Returned(c1, cs1, PyNone)
        ELSE Raised(c1, cs1, "UnknownSlackUserCreationError")

\* upload_new_single_user(user); response1 and response2 are what the remote
\* answers to the first and (if made) the second create call.
upload_new_single_user(c, user, response1, response2, d, over) ==
    LET scim_user == fill_scim_user(user.name, user.name, user.email)
        first == _create_slack_user(c, <<>>, scim_user, response1, d, over)
    IN  IF first.outcome = "raise" /\ first.error = "BadUsernameError"
        THEN LET short_username == SplitAtFirst(user.email)
                 new_scim_user ==
                     fill_scim_user(short_username, user.name, user.email)
             IN  _create_slack_user(first.clock, first.calls, new_scim_user,
                                    response2, 0, over)
        ELSE first

----------------------------------------------------------------------------
(* A client whose user operations are called one after another, each       *)
(* against a remote that answers as it likes.                              *)

Emails == {<<"j", "d", "@", "x">>, <<"a", "@", "x">>}

Users ==
    {[name |-> <<"J", " ", "D", " ">>, email |-> <<"j", "d", "@", "x">>],
     [name |-> <<"A", "n", "n">>, email |-> <<"a", "@", "x">>]}

NoResponse == [status_code |-> 0]

Finish(op, arg, response1, response2, r) ==
    /\ SetClock(r.clock)
    /\ calls' = r.calls
    /\ result' = [op |-> op, arg |-> arg, response |-> response1,
                  response2 |-> response2, outcome |-> r.outcome,
                  value |-> r.value, error |-> r.error]

SearchUser ==
    \E e \in Emails, resp \in SearchResponses, d \in Latency, over \in OnTime :
        /\ now + d <= MaxTime
        /\ Finish("search_user", e, resp, NoResponse,
                  search_user(Clock, e, resp, d, over))
        /\ UNCHANGED <<teams, file, row_idx, pc, attempts, workspace_calls,
                       managerVars>>

VerifyUserNotExists ==
    \E e \in Emails, resp \in SearchResponses, d \in Latency, over \in OnTime :
        /\ now + d <= MaxTime
        /\ Finish("verify_user_not_exists_in_slack", e, resp, NoResponse,
                  verify_user_not_exists_in_slack(Clock, e, resp, d, over))
        /\ UNCHANGED <<teams, file, row_idx, pc, attempts, workspace_calls,
                       managerVars>>

VerifyDeactivatedUserEmail ==
    \E e \in Emails, resp \in SearchResponses, d \in Latency, over \in OnTime :
        /\ now + d <= MaxTime
        /\ Finish("verify_deactivated_user_email", e, resp, NoResponse,
                  verify_deactivated_user_email(Clock, e, resp, d, over))
        /\ UNCHANGED <<teams, file, row_idx, pc, attempts, workspace_calls,
                       managerVars>>

UploadNewSingleUser ==
    \E u \in Users, r1 \in CreateResponses, r2 \in CreateResponses,
       d \in Latency, over \in OnTime :
        /\ now + d <= MaxTime
        /\ Finish("upload_new_single_user", u, r1, r2,
                  upload_new_single_user(Clock, u, r1, r2, d, over))
        /\ UNCHANGED <<teams, file, row_idx, pc, attempts, workspace_calls,
                       managerVars>>

InitClient == InitDebounce

NextClient ==
    \/ SearchUser
    \/ VerifyUserNotExists
    \/ VerifyDeactivatedUserEmail
    \/ UploadNewSingleUser

SpecClient == InitClient /\ [][NextClient]_vars

----------------------------------------------------------------------------
(* CSVInstructionManager._read_entries and the instruction entries.        *)

\* A cell that csv.DictReader fills with None (restval): no text is it.
NoCell == <<None>>

\* The key csv.DictReader files surplus cells under (restkey = None).
RestKey == None

\* One row as csv.DictReader gives it: the header's columns by name, None
\* where the line is short, and the surplus cells under the key None.
DictReaderRow(header, cells) ==
    LET named == {header[i] : i \in 1..Len(header)}
        keys == IF Len(cells) > Len(header) THEN named \cup {RestKey} ELSE named
        at(k) == CHOOSE i \in 1..Len(header) : header[i] = k
    IN  [k \in keys |->
            IF k \notin named THEN NoCell
            ELSE IF at(k) <= Len(cells) THEN cells[at(k)] ELSE NoCell]

\* AssignPhotoInstructionEntry(**row): a key that is not a str is a
\* TypeError of the call itself; pydantic then wants both fields, each a
\* str, and ignores columns it does not declare.
AssignPhotoInstructionEntry(row) ==
    IF RestKey \in DOMAIN row
    THEN [ok |-> FALSE, error |-> "TypeError",
          user_email |-> NoCell, photo_url |-> NoCell]
    ELSE IF \E f \in {"user_email", "photo_url"} :
                f \notin DOMAIN row \/ row[f] = NoCell
    THEN [ok |-> FALSE, error |-> "ValidationError",
          user_email |-> NoCell, photo_url |-> NoCell]
    ELSE [ok |-> TRUE, error |-> None,
          user_email |-> row["user_email"], photo_url |-> row["photo_url"]]

----------------------------------------------------------------------------
(* update_user_photo_processor                                             *)

PatchResponses == {[status_code |-> 200], [status_code |-> 500]}

\* update_photo(user_id, photo_url)
update_photo(c, cs, user_id, photo_url, response, d, over) ==
    LET c1 == Await_debounce(c, "patch_user", d, over)
        cs1 == Append(cs, [api |-> "patch_user",
                           arg |-> [id |-> user_id, photos |-> <<photo_url>>]])
    IN  IF response.status_code # 200
        THEN Raised(c1, cs1, "ValueError")
        ELSE Returned(c1, cs1, PyNone)

\* The errors of the client that are ValueErrors (line 15 of the processor).
IsValueError(error) ==
    error \in {"ValueError", "BadUsernameError", "UnknownSlackUserCreationError",
               "UserIsActiveError", "UserAlreadyExistsError",
               "MultipleUsersWithSameEmailError"}

RowDone(c, cs, searched, log) ==
    [clock |-> c, calls |-> cs, searched |-> searched, log |-> log,
     crashed |-> FALSE]

\* As the body of the loop, with a failed update tried a second time.
process_row_retrying(c, csv_entry, found, patched) ==
    LET s == search_user(c, csv_entry.user_email, found, 0, 0)
        user == s.value
    IN  IF s.outcome = "raise"
        THEN RowDone(s.clock, s.calls, s,
                     IF IsValueError(s.error) THEN "search failed: ValueError"
                     ELSE "search failed")
        ELSE IF ~Truthy(user)
        THEN RowDone(s.clock, s.calls, s, "not found")
        ELSE LET u == update_photo(s.clock, s.calls, user.id,
                                   csv_entry.photo_url, patched, 0, 0)
                 v == update_photo(u.clock, u.calls, user.id,
                                   csv_entry.photo_url, patched, 0, 0)
             IN  IF u.outcome = "raise"
                 THEN RowDone(v.clock, v.calls, s, "update failed")
                 ELSE RowDone(u.clock, u.calls, s, "updated")

\* As the body of the loop, without the except clauses of lines 15-20: an
\* error of search_user leaves the processor.
process_row_search_uncaught(c, csv_entry, found, patched) ==
    LET s == search_user(c, csv_entry.user_email, found, 0, 0)
        user == s.value
    IN  IF s.outcome = "raise"
        THEN [clock |-> s.clock, calls |-> s.calls, searched |-> s,
              log |-> "search failed", crashed |-> TRUE]
        ELSE IF ~Truthy(user)
        THEN RowDone(s.clock, s.calls, s, "not found")
        ELSE LET u == update_photo(s.clock, s.calls, user.id,
                                   csv_entry.photo_url, patched, 0, 0)
             IN  IF u.outcome = "raise"
                 THEN RowDone(u.clock, u.calls, s, "update failed")
                 ELSE RowDone(u.clock, u.calls, s, "updated")

\* The body of the loop for one entry (lines 12-34); found and patched are
\* what the remote answers to the search and to the patch.
process_row(c, csv_entry, found, patched) ==
    LET s == search_user(c, csv_entry.user_email, found, 0, 0)
        user == s.value
    IN  IF s.outcome = "raise"
        THEN RowDone(s.clock, s.calls, s,
                     IF IsValueError(s.error) THEN "search failed: ValueError"
                     ELSE "search failed")
        ELSE IF ~Truthy(user)
        THEN RowDone(s.clock, s.calls, s, "not found")
        ELSE LET u == update_photo(s.clock, s.calls, user.id,
                                   csv_entry.photo_url, patched, 0, 0)
             IN  IF u.outcome = "raise"
                 THEN RowDone(u.clock, u.calls, s, "update failed")
                 ELSE RowDone(u.clock, u.calls, s, "updated")

\* The instruction files of the photo processor: the header of
\* AssignPhotoInstructionEntry, and lines that are whole or one cell short.
PhotoHeader == <<"user_email", "photo_url">>

PhotoLines ==
    {<<<<"j", "d", "@", "x">>, <<"p", "1">>>>,
     <<<<"a", "@", "x">>, <<"p", "2">>>>,
     <<<<"a", "@", "x">>>>}

PhotoFiles == [header : {PhotoHeader}, rows : BoundedSeq(PhotoLines, MaxRows)]

InitPhoto ==
    /\ now = 0
    /\ debounce_data = EmptyTable
    /\ proceeded = EmptyTable
    /\ last_debounce = NoDebounce
    /\ calls = <<>>
    /\ result = [op |-> None]
    /\ teams = <<>>
    /\ file \in PhotoFiles
    /\ row_idx = 0
    /\ pc = "run"
    /\ attempts = <<>>
    /\ workspace_calls = <<>>
    /\ InitManager

\* The generator's next entry cannot be built: the error leaves the for
\* statement and with it the processor.
ReadRowFails ==
    /\ pc = "run"
    /\ row_idx < Len(file.rows)
    /\ LET row == DictReaderRow(file.header, file.rows[row_idx + 1])
           csv_entry == AssignPhotoInstructionEntry(row)
       IN  /\ ~csv_entry.ok
           /\ pc' = "crashed"
           /\ result' = [op |-> "update_user_photo_processor",
                         outcome |-> "raise", error |-> csv_entry.error]
    /\ UNCHANGED <<now, debounce_data, proceeded, last_debounce, calls, teams, file,
                   row_idx, attempts, workspace_calls, managerVars>>

\* One turn of the loop: the generator builds the next entry and the body
\* runs on it.
ProcessRow ==
    /\ pc = "run"
    /\ row_idx < Len(file.rows)
    /\ LET row == DictReaderRow(file.header, file.rows[row_idx + 1])
           csv_entry == AssignPhotoInstructionEntry(row)
       IN  /\ csv_entry.ok
           /\ \E found \in SearchResponses, patched \in PatchResponses :
                LET r == process_row(Clock, csv_entry, found, patched)
                IN  /\ SetClock(r.clock)
                    /\ calls' = calls \o r.calls
                    /\ attempts' = Append(attempts,
                          [row |-> row_idx + 1, calls |-> r.calls,
                           status_code |-> found.status_code,
                           searched |-> [outcome |-> r.searched.outcome,
                                         value |-> r.searched.value,
                                         error |-> r.searched.error],
                           log |-> r.log])
                    /\ row_idx' = row_idx + 1
                    /\ pc' = IF r.crashed THEN "crashed" ELSE "run"
                    /\ result' = IF r.crashed
                                 THEN [op |-> "update_user_photo_processor",
                                       outcome |-> "raise",
                                       error |-> r.searched.error]
                                 ELSE result
    /\ UNCHANGED <<teams, file, workspace_calls, managerVars>>

\* The generator is exhausted: the loop ends and the processor returns.
ProcessorReturns ==
    /\ pc = "run"
    /\ row_idx = Len(file.rows)
    /\ pc' = "done"
    /\ result' = [op |-> "update_user_photo_processor", outcome |-> "return",
                  error |-> None]
    /\ UNCHANGED <<now, debounce_data, proceeded, last_debounce, calls, teams, file,
                   row_idx, attempts, workspace_calls, managerVars>>

NextPhoto ==
    \/ ReadRowFails
    \/ ProcessRow
    \/ ProcessorReturns

SpecPhoto == InitPhoto /\ [][NextPhoto]_vars

----------------------------------------------------------------------------
(* CSVInstructionManager: a read accessor, consumed entry by entry.        *)

\* The first line after line i that csv.DictReader does not skip as blank,
\* or 0 when there is none.
NextLine(rows, i) ==
    IF \E j \in (i + 1)..Len(rows) : rows[j] # <<>>
    THEN CHOOSE j \in (i + 1)..Len(rows) :
            /\ rows[j] # <<>>
            /\ \A k \in (i + 1)..(j - 1) : rows[k] = <<>>
    ELSE 0

RECURSIVE NextGoodLine(_, _)
NextGoodLine(f, i) ==
    LET j == NextLine(f.rows, i)
    IN  IF j = 0 THEN 0
        ELSE IF AssignPhotoInstructionEntry(DictReaderRow(f.header, f.rows[j])).ok
        THEN j
        ELSE NextGoodLine(f, j)

\* As _read_entries, with a row that cannot be constructed passed over and
\* the loop going on to the next one.
_read_entries_skipping(f, i) ==
    LET j == NextGoodLine(f, i)
    IN  IF j = 0
        THEN [kind |-> "stop", line |-> Len(f.rows), error |-> None,
              user_email |-> NoCell, photo_url |-> NoCell]
        ELSE LET entry ==
                    AssignPhotoInstructionEntry(DictReaderRow(f.header, f.rows[j]))
             IN  [kind |-> "yield", line |-> j, error |-> None,
                  user_email |-> entry.user_email,
                  photo_url |-> entry.photo_url]

\* One next() on the generator of _read_entries(AssignPhotoInstructionEntry)
\* that has consumed the lines up to i: it yields the entry of the next
\* line, raises what its construction raises, or stops at the end of file.
_read_entries(f, i) ==
    LET j == NextLine(f.rows, i)
    IN  IF j = 0
        THEN [kind |-> "stop", line |-> Len(f.rows), error |-> None,
              user_email |-> NoCell, photo_url |-> NoCell]
        ELSE LET entry ==
                    AssignPhotoInstructionEntry(DictReaderRow(f.header, f.rows[j]))
             IN  IF entry.ok
                 THEN [kind |-> "yield", line |-> j, error |-> None,
                       user_email |-> entry.user_email,
                       photo_url |-> entry.photo_url]
                 ELSE [kind |-> "raise", line |-> j, error |-> entry.error,
                       user_email |-> NoCell, photo_url |-> NoCell]

\* Instruction files read through yield_assign_photo_instructions: the
\* header as declared, with one more column, or without photo_url; lines
\* that are whole, one cell short, one cell long, or blank.
ReaderHeaders ==
    {PhotoHeader, <<"user_email", "photo_url", "note">>, <<"user_email">>}

ReaderLines ==
    PhotoLines \cup {<<<<"a", "@", "x">>, <<"p", "2">>, <<"n">>>>, <<>>}

ReaderFiles == [header : ReaderHeaders, rows : BoundedSeq(ReaderLines, MaxRows)]

InitReader ==
    /\ now = 0
    /\ debounce_data = EmptyTable
    /\ proceeded = EmptyTable
    /\ last_debounce = NoDebounce
    /\ calls = <<>>
    /\ result = [op |-> None]
    /\ teams = <<>>
    /\ file \in ReaderFiles
    /\ row_idx = 0
    /\ pc = "run"
    /\ attempts = <<>>
    /\ workspace_calls = <<>>
    /\ yielded = <<>>
    /\ scope = "before"
    /\ current_file = None
    /\ csv_dict_writer = None
    /\ written = <<>>

ReaderFrame ==
    UNCHANGED <<now, debounce_data, proceeded, last_debounce, calls, teams,
                file, attempts, workspace_calls, scope, current_file,
                csv_dict_writer, written>>

\* next() yields an entry.
EntryYielded ==
    /\ pc = "run"
    /\ LET n == _read_entries(file, row_idx)
       IN  /\ n.kind = "yield"
           /\ row_idx' = n.line
           /\ yielded' = Append(yielded,
                 [line |-> n.line, user_email |-> n.user_email,
                  photo_url |-> n.photo_url])
           /\ UNCHANGED <<pc, result>>
    /\ ReaderFrame

\* next() raises: the generator is finished by the error.
EntryRaises ==
    /\ pc = "run"
    /\ LET n == _read_entries(file, row_idx)
       IN  /\ n.kind = "raise"
           /\ row_idx' = n.line
           /\ pc' = "crashed"
           /\ result' = [op |-> "_read_entries", outcome |-> "raise",
                         error |-> n.error]
           /\ UNCHANGED yielded
    /\ ReaderFrame

\* next() finds the end of the file: StopIteration.
EntriesExhausted ==
    /\ pc = "run"
    /\ LET n == _read_entries(file, row_idx)
       IN  /\ n.kind = "stop"
           /\ row_idx' = n.line
           /\ pc' = "done"
           /\ result' = [op |-> "_read_entries", outcome |-> "return",
                         error |-> None]
           /\ UNCHANGED yielded
    /\ ReaderFrame

NextReader ==
    \/ EntryYielded
    \/ EntryRaises
    \/ EntriesExhausted

SpecReader == InitReader /\ [][NextReader]_vars

----------------------------------------------------------------------------
(* CSVInstructionManager: the scoped write mode and add_entry.             *)

\* AddUserInstructionEntry.model_fields.keys(): the header written.
AddUserFields ==
    <<"workspace_name", "workspace_slack_id", "channel_name",
      "channel_slack_id", "user_email", "user_slack_id">>

\* The manager's writer state as one value.
Manager ==
    [current_file |-> current_file, csv_dict_writer |-> csv_dict_writer,
     written |-> written]

\* open_for_writing up to its yield (lines 28-35): the file is opened for
\* writing, which empties it, and the header is written.
open_for_writing_enter(m) ==
    [current_file |-> "open", csv_dict_writer |-> "DictWriter",
     written |-> <<AddUserFields>>]

\* As the normal exit of open_for_writing, without lines 38-39: the file is
\* closed and both attributes keep what they held.
open_for_writing_exit_no_reset(m) ==
    [current_file |-> "closed", csv_dict_writer |-> m.csv_dict_writer,
     written |-> m.written]

\* open_for_writing after its yield when the body ended normally (lines
\* 36-39): the with statement closes the file, then both attributes are
\* reset.
open_for_writing_exit(m) ==
    [current_file |-> None, csv_dict_writer |-> None, written |-> m.written]

\* open_for_writing when the body raised: the error is thrown in at the
\* yield, the with statement closes the file and lines 38-39 do not run.
open_for_writing_abort(m) ==
    [current_file |-> "closed", csv_dict_writer |-> m.csv_dict_writer,
     written |-> m.written]

\* add_entry(entry): how it ends and the manager afterwards. A file object,
\* open or closed, is true; writing through a closed one is a ValueError of
\* the file.
add_entry(m, entry) ==
    IF entry.type # "AddUserInstructionEntry"
    THEN [m |-> m, outcome |-> "raise", error |-> "Expected InstructionEntry"]
    ELSE IF m.current_file = None
    THEN [m |-> m, outcome |-> "raise", error |-> "No file opened"]
    ELSE IF m.current_file = "closed"
    THEN [m |-> m, outcome |-> "raise",
          error |-> "I/O operation on closed file"]
    ELSE [m |-> [m EXCEPT !.written = Append(@, entry.row)],
          outcome |-> "return", error |-> None]

\* The entries handed to add_entry: three of the right shape, one of another.
Entries ==
    {[type |-> "AddUserInstructionEntry",
      row |-> <<"W", "T1", "general", "C1", "a@x", "U1">>],
     [type |-> "AddUserInstructionEntry",
      row |-> <<"W", "T1", "random", "C2", "jd@x", "U2">>],
     [type |-> "AddUserInstructionEntry",
      row |-> <<"V", "T2", "general", "C3", "a@x", "U1">>],
     [type |-> "AssignPhotoInstructionEntry", row |-> <<"a@x", "p1">>]}

SetManager(m) ==
    /\ current_file' = m.current_file
    /\ csv_dict_writer' = m.csv_dict_writer
    /\ written' = m.written

WriterFrame ==
    UNCHANGED <<now, debounce_data, proceeded, last_debounce, calls, teams,
                file, row_idx, pc, attempts, workspace_calls, yielded>>

EnterWriting ==
    /\ scope # "inside"
    /\ SetManager(open_for_writing_enter(Manager))
    /\ scope' = "inside"
    /\ result' = [op |-> "open_for_writing"]
    /\ WriterFrame

ExitWriting ==
    /\ scope = "inside"
    /\ SetManager(open_for_writing_exit(Manager))
    /\ scope' = "exited"
    /\ result' = [op |-> "open_for_writing exit"]
    /\ WriterFrame

AbortWriting ==
    /\ scope = "inside"
    /\ SetManager(open_for_writing_abort(Manager))
    /\ scope' = "aborted"
    /\ result' = [op |-> "open_for_writing abort"]
    /\ WriterFrame

AddEntry ==
    \E entry \in Entries :
        /\ Len(written) <= MaxRows
        /\ LET r == add_entry(Manager, entry)
           IN  /\ SetManager(r.m)
               /\ result' = [op |-> "add_entry", entry |-> entry,
                             scope |-> scope, written_before |-> written,
                             outcome |-> r.outcome, error |-> r.error]
        /\ UNCHANGED scope
        /\ WriterFrame

InitWriter == InitDebounce

NextWriter ==
    \/ EnterWriting
    \/ ExitWriting
    \/ AbortWriting
    \/ AddEntry

SpecWriter == InitWriter /\ [][NextWriter]_vars

----------------------------------------------------------------------------
(* SlackConnectionManager: workspaces.                                     *)

UpperCase ==
    <<"A", "B", "C", "D", "E", "F", "G", "H", "I", "J", "K", "L", "M",
      "N", "O", "P", "Q", "R", "S", "T", "U", "V", "W", "X", "Y", "Z">>

LowerCase ==
    <<"a", "b", "c", "d", "e", "f", "g", "h", "i", "j", "k", "l", "m",
      "n", "o", "p", "q", "r", "s", "t", "u", "v", "w", "x", "y", "z">>

\* str.lower()
lower(s) ==
    [i \in 1..Len(s) |->
        IF \E n \in 1..26 : UpperCase[n] = s[i]
        THEN LowerCase[CHOOSE n \in 1..26 : UpperCase[n] = s[i]]
        ELSE s[i]]

\* re.sub(r"\s+", "-", s): every run of whitespace becomes one hyphen.
RECURSIVE sub_whitespace(_)
sub_whitespace(s) ==
    IF s = <<>> THEN <<>>
    ELSE IF IsSpace(Head(s)) THEN <<"-">> \o sub_whitespace(lstrip(Tail(s)))
    ELSE <<Head(s)>> \o sub_whitespace(Tail(s))

\* The domain create_workspace_in_slack derives from a name (lines 285-289).
Domain(name) == sub_whitespace(lstrip(lower(name))) \o <<"-", "m", "i", "s", "r">>

\* The longest domain create_workspace_in_slack accepts (line 294).
MaxDomainLen == 21

\* What the remote answers to admin_teams_list and admin_teams_create.
OkResponses == {[ok |-> TRUE], [ok |-> FALSE]}

\* The ids the remote gives the teams it creates, in order.
TeamIds == <<"T1", "T2", "T3", "T4", "T5", "T6">>

\* for team in response.data["teams"]: the id of the first team so named.
RECURSIVE FirstTeamNamed(_, _)
FirstTeamNamed(ts, name) ==
    IF ts = <<>> THEN PyNone
    ELSE IF Head(ts).name = name THEN PyStr(Head(ts).id)
    ELSE FirstTeamNamed(Tail(ts), name)

\* verify_workspace_exists_in_slack(workspace) against the remote's teams ts.
verify_workspace_exists_in_slack(c, workspace, ts, listed, d, over) ==
    LET c1 == Await_debounce(c, "admin_teams_list", d, over)
        cs == <<[api |-> "admin_teams_list", arg |-> <<>>]>>
    IN  IF ~listed.ok
        THEN Raised(c1, cs, "Exception")
        ELSE Returned(c1, cs, FirstTeamNamed(ts, workspace.name))

Ended(r, ts) ==
    [clock |-> r.clock, calls |-> r.calls, outcome |-> r.outcome,
     value |-> r.value, error |-> r.error, teams |-> ts]

\* As create_workspace_in_slack, without the early return of lines 278-282.
create_workspace_always_creates(c, workspace, ts, listed, created, d, over) ==
    LET v == verify_workspace_exists_in_slack(c, workspace, ts, listed, d, over)
        c2 == Await_debounce(v.clock, "admin_teams_create", 0, over)
        domain == Domain(workspace.name)
        cs2 == Append(v.calls,
                      [api |-> "admin_teams_create",
                       arg |-> <<workspace.name, domain>>])
        workspace_id == TeamIds[Len(ts) + 1]
    IN  IF v.outcome = "raise" THEN Ended(v, ts)
        ELSE IF Len(domain) > MaxDomainLen
        THEN Ended(Raised(c2, v.calls, "ValueError"), ts)
        ELSE IF ~created.ok
        THEN Ended(Raised(c2, cs2, "Exception"), ts)
        ELSE Ended(Returned(c2, cs2, PyStr(workspace_id)),
                   Append(ts, [name |-> workspace.name, id |-> workspace_id]))

\* As create_workspace_in_slack, with the test of line 294 off by one.
create_workspace_domain_22(c, workspace, ts, listed, created, d, over) ==
    LET v == verify_workspace_exists_in_slack(c, workspace, ts, listed, d, over)
        existing_workspace_id == v.value
        c2 == Await_debounce(v.clock, "admin_teams_create", 0, over)
        domain == Domain(workspace.name)
        cs2 == Append(v.calls,
                      [api |-> "admin_teams_create",
                       arg |-> <<workspace.name, domain>>])
        workspace_id == TeamIds[Len(ts) + 1]
    IN  IF v.outcome = "raise" THEN Ended(v, ts)
        ELSE IF Truthy(existing_workspace_id) THEN Ended(v, ts)
        ELSE IF Len(domain) > MaxDomainLen + 1
        THEN Ended(Raised(c2, v.calls, "ValueError"), ts)
        ELSE IF ~created.ok
        THEN Ended(Raised(c2, cs2, "Exception"), ts)
        ELSE Ended(Returned(c2, cs2, PyStr(workspace_id)),
                   Append(ts, [name |-> workspace.name, id |-> workspace_id]))

\* create_workspace_in_slack(workspace) against the remote's teams ts; listed
\* and created are what the remote answers to the list and to the create
\* call. Gives how it ends and the remote's teams afterwards.
create_workspace_in_slack(c, workspace, ts, listed, created, d, over) ==
    LET v == verify_workspace_exists_in_slack(c, workspace, ts, listed, d, over)
        existing_workspace_id == v.value
        c2 == Await_debounce(v.clock, "admin_teams_create", 0, over)
        domain == Domain(workspace.name)
        cs2 == Append(v.calls,
                      [api |-> "admin_teams_create",
                       arg |-> <<workspace.name, domain>>])
        workspace_id == TeamIds[Len(ts) + 1]
    IN  IF v.outcome = "raise" THEN Ended(v, ts)
        ELSE IF Truthy(existing_workspace_id) THEN Ended(v, ts)
        ELSE IF Len(domain) > MaxDomainLen
        THEN Ended(Raised(c2, v.calls, "ValueError"), ts)
        ELSE IF ~created.ok
        THEN Ended(Raised(c2, cs2, "Exception"), ts)
        ELSE Ended(Returned(c2, cs2, PyStr(workspace_id)),
                   Append(ts, [name |-> workspace.name, id |-> workspace_id]))

\* Workspace names: one with whitespace to strip and to collapse, one whose
\* domain has exactly 21 characters, one with 22, and one with 30.
DevOps == <<" ", "D", "e", "v", " ", " ", "O", "p", "s", " ">>

Training(tail) == <<"T", "r", "a", "i", "n", "i", "n", "g", " ">> \o tail

Workspaces ==
    {[name |-> DevOps],
     [name |-> Training(SubSeq(UpperCase, 1, 7))],
     [name |-> Training(SubSeq(UpperCase, 1, 8))],
     [name |-> Training(SubSeq(UpperCase, 1, 16))]}

InitWorkspace ==
    /\ now = 0
    /\ debounce_data = EmptyTable
    /\ proceeded = EmptyTable
    /\ last_debounce = NoDebounce
    /\ calls = <<>>
    /\ result = [op |-> None]
    /\ teams \in {<<>>} \cup {<<[name |-> w.name, id |-> TeamIds[1]]>> : w \in Workspaces}
    /\ file = <<>>
    /\ row_idx = 0
    /\ pc = "idle"
    /\ attempts = <<>>
    /\ workspace_calls = <<>>
    /\ InitManager

CreateWorkspace ==
    \E w \in Workspaces, listed \in OkResponses, created \in OkResponses :
        /\ Len(workspace_calls) < MaxOps
        /\ LET r == create_workspace_in_slack(Clock, w, teams, listed, created,
                                              0, 0)
           IN  /\ SetClock(r.clock)
               /\ calls' = r.calls
               /\ teams' = r.teams
               /\ result' = [op |-> "create_workspace_in_slack", arg |-> w,
                             outcome |-> r.outcome, value |-> r.value,
                             error |-> r.error]
               /\ workspace_calls' = Append(workspace_calls,
                     [name |-> w.name, listed_ok |-> listed.ok,
                      found_before |->
                          \E n \in 1..Len(teams) : teams[n].name = w.name,
                      outcome |-> r.outcome, value |-> r.value,
                      error |-> r.error, calls |-> r.calls])
        /\ UNCHANGED <<file, row_idx, pc, attempts, managerVars>>

NextWorkspace == CreateWorkspace

SpecWorkspace == InitWorkspace /\ [][NextWorkspace]_vars

----------------------------------------------------------------------------
(* C1: _debounce sleeps if and only if the key already has a timestamp and *)
(* the time since it is strictly less than 60/r seconds; when it sleeps it *)
(* returns at least (60/r - elapsed) + 1 seconds after it was entered, and *)
(* when it does not sleep it returns at once.                              *)
C1_DebounceWaitsExactlyWhenInCooldown ==
    last_debounce.called =>
        LET l == last_debounce
            elapsed == l.arrived - l.prev
            inCooldown == l.had /\ elapsed * l.rate < 60000
        IN  /\ l.slept <=> inCooldown
            /\ l.slept =>
                 l.returned - l.arrived >= (60000 \div l.rate) - elapsed + 1000
            /\ ~l.slept => l.returned = l.arrived

\* A second call inside the cooldown has slept, and a call exactly 60/r
\* seconds after the previous one has gone through without sleeping.
C1_Witness ==
    /\ last_debounce.called
    /\ last_debounce.had
    /\ last_debounce.slept
    /\ last_debounce.returned > last_debounce.arrived

C1_WitnessBoundary ==
    /\ last_debounce.called
    /\ last_debounce.had
    /\ (last_debounce.arrived - last_debounce.prev) * last_debounce.rate = 60000
    /\ ~last_debounce.slept

(* C2: when _debounce returns for a key that already had a timestamp, the  *)
(* timestamp it leaves in the table is the time at which it returns (taken *)
(* after any sleep).                                                       *)
C2_StoredTimestampIsTimeOfProceeding ==
    (last_debounce.called /\ last_debounce.had) =>
        debounce_data[last_debounce.key] = last_debounce.returned

\* What the code stores instead: the time at which the call was entered.
C2_StoredTimestampIsTimeOfArrival ==
    last_debounce.called =>
        debounce_data[last_debounce.key] = last_debounce.arrived

(* C14: for _debounce calls made one after another on one key with one     *)
(* rate, consecutive calls return at least 60/r seconds apart, also when   *)
(* the earlier of the two was itself delayed by a sleep.                   *)
C14_CooldownBetweenConsecutiveReturns ==
    (last_debounce.called /\ last_debounce.had) =>
        (last_debounce.returned - last_debounce.prev_returned)
            * last_debounce.rate >= 60000

\* What the code does keep apart: the times at which consecutive calls on
\* a key were entered, as the table remembers them.
C14_CooldownFromStoredTimestamp ==
    (last_debounce.called /\ last_debounce.had) =>
        (last_debounce.returned - last_debounce.prev)
            * last_debounce.rate >= 60000

----------------------------------------------------------------------------
(* Claims about update_user_photo_processor.                               *)

\* The cell of data row i under column col, as csv.DictReader names it.
Cell(i, col) == DictReaderRow(file.header, file.rows[i])[col]

Constructs(i) ==
    AssignPhotoInstructionEntry(DictReaderRow(file.header, file.rows[i])).ok

SearchCalls(cs) == SelectSeq(cs, LAMBDA c : c.api = "scim_search_users")

PatchCalls(cs) == SelectSeq(cs, LAMBDA c : c.api = "patch_user")

\* Rows 1..n have each been attempted, in file order: row i is the i-th
\* attempt and begins with the search for its e-mail.
AttemptedInOrder(n) ==
    /\ Len(attempts) = n
    /\ \A i \in 1..n :
         /\ attempts[i].row = i
         /\ attempts[i].calls # <<>>
         /\ attempts[i].calls[1] =
              [api |-> "scim_search_users", arg |-> Cell(i, "user_email")]

(* C3: update_user_photo_processor always runs the batch to completion:    *)
(* every error at a row is caught and the row skipped, so every row of the *)
(* file is attempted in file order and the processor returns normally.     *)
C3_BatchAlwaysRunsToCompletion ==
    /\ pc # "crashed"
    /\ pc = "done" => AttemptedInOrder(Len(file.rows))

(* C3, amended: the batch runs to completion unless an instruction entry   *)
(* cannot be constructed. Every error of search_user or update_photo is    *)
(* caught and the row skipped, so the rows are attempted in file order     *)
(* whatever happened to earlier rows; the processor ends early only at a   *)
(* row whose entry fails to construct, with that error, and a file whose   *)
(* rows all construct is attempted in full and the processor returns.      *)
C3_BatchRunsToCompletionUnlessRowMalformed ==
    /\ pc \in {"run", "done", "crashed"}
    /\ AttemptedInOrder(row_idx)
    /\ pc = "crashed" =>
         /\ row_idx < Len(file.rows)
         /\ ~Constructs(row_idx + 1)
         /\ result.outcome = "raise"
         /\ result.error \in {"ValidationError", "TypeError"}
    /\ pc = "done" =>
         /\ row_idx = Len(file.rows)
         /\ result.outcome = "return"
    /\ (pc = "run" /\ row_idx = Len(file.rows)) =>
         \A i \in 1..Len(file.rows) : Constructs(i)

\* The processor has returned after a row whose lookup failed, a row whose
\* user was not found and a row whose update failed.
C3_Witness ==
    /\ pc = "done"
    /\ Len(attempts) = 3
    /\ attempts[1].log = "search failed"
    /\ attempts[2].log = "update failed"
    /\ attempts[3].log = "updated"

C3_WitnessCrash ==
    /\ pc = "crashed"
    /\ Len(attempts) = 1
    /\ Len(file.rows) = 3

(* C4: each row is an independent at-most-once attempt: for each row at    *)
(* most one search_user call and at most one update_photo call; the update *)
(* is called only when the row's search returned a user, with that user's  *)
(* id and the row's photo_url.                                             *)
C4_AtMostOnceAttemptPerRow ==
    /\ Len(SearchCalls(calls)) <= Len(attempts)
    /\ Len(PatchCalls(calls)) <= Len(attempts)
    /\ \A i \in 1..Len(attempts) :
         LET a == attempts[i]
             updates == PatchCalls(a.calls)
         IN  /\ Len(SearchCalls(a.calls)) <= 1
             /\ Len(updates) <= 1
             /\ Len(updates) = 1 =>
                  /\ a.searched.outcome = "return"
                  /\ a.searched.value.t = "dict"
                  /\ updates[1].arg =
                       [id |-> a.searched.value.id,
                        photos |-> <<Cell(i, "photo_url")>>]
             /\ (a.searched.outcome = "raise" \/ a.searched.value = PyNone) =>
                  updates = <<>>

C4_Witness ==
    /\ Len(attempts) = 2
    /\ PatchCalls(attempts[1].calls) = <<>>
    /\ attempts[1].log = "not found"
    /\ Len(PatchCalls(attempts[2].calls)) = 1
    /\ attempts[2].log = "update failed"

(* C15: when the remote search answers with a status other than 200, the   *)
(* failure branch of search_user is a no-op: no exception leaves           *)
(* search_user, it returns None, and the processor logs the row as not     *)
(* found.                                                                  *)
C15_FailedSearchIsNoOp ==
    \A i \in 1..Len(attempts) :
        attempts[i].status_code # 200 =>
            /\ attempts[i].searched.outcome = "return"
            /\ attempts[i].searched.value = PyNone
            /\ attempts[i].log = "not found"

(* C15, amended: when the remote search answers with a status other than   *)
(* 200, line 208 raises a str, which Python refuses with a TypeError: that *)
(* TypeError leaves search_user, which returns nothing; the processor      *)
(* catches it in its `except Exception` clause, logs the row as a failed   *)
(* search (not as not found), issues no update for it and goes on.         *)
C15_FailedSearchRaisesTypeError ==
    \A i \in 1..Len(attempts) :
        attempts[i].status_code # 200 =>
            /\ attempts[i].searched.outcome = "raise"
            /\ attempts[i].searched.error = "TypeError"
            /\ attempts[i].log = "search failed"
            /\ PatchCalls(attempts[i].calls) = <<>>

\* A row whose search answered 500 was logged as a failed search, and the
\* row after it was attempted.
C15_Witness ==
    /\ Len(attempts) = 2
    /\ attempts[1].status_code = 500
    /\ attempts[1].searched.error = "TypeError"
    /\ attempts[1].log = "search failed"

----------------------------------------------------------------------------
(* Claims about the SCIM user operations, on the last operation's record.  *)

IsBadUsername(response) ==
    /\ response.status_code \in {400, 409}
    /\ Head(response.description) \in BadUsernameErrors

CreateCalls == SelectSeq(calls, LAMBDA c : c.api = "create_user")

(* C5: upload_new_single_user makes at most two create calls; the second   *)
(* is made only after a bad-username rejection of the first and uses the   *)
(* local part of the e-mail as username; every other failure of a create   *)
(* call is raised to the caller, so the operation returns only when a      *)
(* create call answered 201, and then returns the id created.              *)
C5_UploadRaisesEveryOtherFailure ==
    result.op = "upload_new_single_user" =>
        LET n == Len(CreateCalls)
            answer == IF n = 2 THEN result.response2 ELSE result.response
        IN  /\ n \in {1, 2}
            /\ n = 2 =>
                 /\ IsBadUsername(result.response)
                 /\ CreateCalls[2].arg.userName = SplitAtFirst(result.arg.email)
            /\ answer.status_code # 201 => result.outcome = "raise"
            /\ result.outcome = "return" =>
                 /\ answer.status_code = 201
                 /\ result.value = PyStr(answer.id)

\* What the code does hold to: at most two create calls, the second only
\* after a bad-username rejection and with the local part as username.
C5_UploadRetriesOnceOnBadUsername ==
    result.op = "upload_new_single_user" =>
        LET n == Len(CreateCalls)
        IN  /\ n \in {1, 2}
            /\ n = 2 <=> IsBadUsername(result.response)
            /\ n = 2 =>
                 CreateCalls[2].arg.userName = SplitAtFirst(result.arg.email)

(* C6: search_user returns None when the search yields no match, the one   *)
(* record when it yields exactly one, and raises                           *)
(* MultipleUsersWithSameEmailError when it yields two or more; no match is *)
(* never an error.                                                         *)
C6_SearchUserByMatchCount ==
    (result.op = "search_user" /\ result.response.status_code = 200) =>
        LET found == result.response.Resources
        IN  /\ Len(found) = 0 =>
                 result.outcome = "return" /\ result.value = PyNone
            /\ Len(found) = 1 =>
                 result.outcome = "return" /\ result.value = PyDict(found[1])
            /\ Len(found) >= 2 =>
                 /\ result.outcome = "raise"
                 /\ result.error = "MultipleUsersWithSameEmailError"

C6_Witness ==
    /\ result.op = "search_user"
    /\ result.response.status_code = 200
    /\ Len(result.response.Resources) = 2
    /\ result.error = "MultipleUsersWithSameEmailError"

C6_WitnessNotFound ==
    /\ result.op = "search_user"
    /\ result.response.status_code = 200
    /\ result.response.Resources = <<>>
    /\ result.outcome = "return"

(* C7: verify_user_not_exists_in_slack raises UserAlreadyExistsError when  *)
(* the search finds exactly one match and when the search raises the       *)
(* multiple-match error, and returns without error only when the search    *)
(* finds no match.                                                         *)
C7_VerifyNotExistsWidensMultiple ==
    result.op = "verify_user_not_exists_in_slack" =>
        LET found == result.response.Resources
            ok == result.response.status_code = 200
        IN  /\ (ok /\ Len(found) >= 1) =>
                 /\ result.outcome = "raise"
                 /\ result.error = "UserAlreadyExistsError"
            /\ result.outcome = "return" => (ok /\ Len(found) = 0)

C7_Witness ==
    /\ result.op = "verify_user_not_exists_in_slack"
    /\ result.response.status_code = 200
    /\ Len(result.response.Resources) >= 2
    /\ result.error = "UserAlreadyExistsError"

(* C8: verify_deactivated_user_email raises UserIsActiveError when the     *)
(* search finds a match that is active; in every other case (a match that  *)
(* is inactive, or no match) it returns, with the id of the match.         *)
C8_VerifyDeactivatedReturnsOtherwise ==
    (/\ result.op = "verify_deactivated_user_email"
     /\ result.response.status_code = 200
     /\ Len(result.response.Resources) <= 1) =>
        LET found == result.response.Resources
        IN  IF found # <<>> /\ found[1].active
            THEN result.outcome = "raise" /\ result.error = "UserIsActiveError"
            ELSE /\ result.outcome = "return"
                 /\ found # <<>> => result.value = PyStr(found[1].id)

\* What the code does with no match: it fails on None["id"].
C8_VerifyDeactivatedNoMatchFails ==
    (/\ result.op = "verify_deactivated_user_email"
     /\ result.response.status_code = 200
     /\ result.response.Resources = <<>>) =>
        result.outcome = "raise" /\ result.error = "TypeError"

----------------------------------------------------------------------------
(* Claims about create_workspace_in_slack, on its invocations so far.      *)

TeamsCreateCalls(cs) == SelectSeq(cs, LAMBDA c : c.api = "admin_teams_create")

(* C9: create_workspace_in_slack is idempotent by name: once an invocation *)
(* for a name has returned an id (the first creates and returns W1), a     *)
(* later invocation for the same name issues no admin_teams_create call    *)
(* and, when it returns, returns that same id; so the creation calls made  *)
(* for a name that was created number one.                                 *)
C9_CreateWorkspaceIdempotentByName ==
    \A i \in 1..Len(workspace_calls) : \A j \in 1..Len(workspace_calls) :
        (/\ i < j
         /\ workspace_calls[i].name = workspace_calls[j].name
         /\ workspace_calls[i].outcome = "return") =>
            /\ TeamsCreateCalls(workspace_calls[j].calls) = <<>>
            /\ workspace_calls[j].outcome = "return" =>
                 workspace_calls[j].value = workspace_calls[i].value

\* The first call created the workspace with one creation call, the second
\* found it and returned the same id without one.
C9_Witness ==
    /\ Len(workspace_calls) = 2
    /\ workspace_calls[1].name = workspace_calls[2].name
    /\ workspace_calls[1].outcome = "return"
    /\ Len(TeamsCreateCalls(workspace_calls[1].calls)) = 1
    /\ workspace_calls[2].outcome = "return"
    /\ workspace_calls[2].value = workspace_calls[1].value
    /\ TeamsCreateCalls(workspace_calls[2].calls) = <<>>

(* C10: when the domain derived from the name is longer than 21            *)
(* characters, create_workspace_in_slack fails with the domain-too-long    *)
(* error before any network call: the invocation has issued no remote call *)
(* when the error is raised.                                               *)
C10_DomainTooLongBeforeAnyNetworkCall ==
    (result.op = "create_workspace_in_slack" /\ result.error = "ValueError") =>
        calls = <<>>

(* C10, amended: when the domain derived from the name is longer than 21   *)
(* characters and the team list holds no team of that name, the invocation *)
(* fails with the domain-too-long error before any creation call: it has   *)
(* issued the one admin_teams_list call of its lookup and no               *)
(* admin_teams_create call. The error is raised in no other case.          *)
C10_DomainTooLongBeforeCreation ==
    \A i \in 1..Len(workspace_calls) :
        LET w == workspace_calls[i]
            tooLong == Len(Domain(w.name)) > 21
        IN  /\ (tooLong /\ w.listed_ok /\ ~w.found_before) =>
                 w.outcome = "raise" /\ w.error = "ValueError"
            /\ w.error = "ValueError" =>
                 /\ tooLong
                 /\ w.calls = <<[api |-> "admin_teams_list", arg |-> <<>>]>>
            /\ tooLong => TeamsCreateCalls(w.calls) = <<>>
            /\ (tooLong /\ w.outcome = "return") =>
                 \E j \in 1..Len(teams) :
                     teams[j].name = w.name /\ PyStr(teams[j].id) = w.value

\* The name of the end-to-end scenario, "Training ABCDEFGHIJKLMNOP", was
\* refused; so was the name whose domain has 22 characters.
C10_Witness ==
    /\ result.op = "create_workspace_in_slack"
    /\ result.arg.name = Training(SubSeq(UpperCase, 1, 16))
    /\ Len(Domain(result.arg.name)) = 30
    /\ result.error = "ValueError"

C10_WitnessBoundary ==
    /\ Len(workspace_calls) = 2
    /\ Len(Domain(workspace_calls[1].name)) = 21
    /\ Len(TeamsCreateCalls(workspace_calls[1].calls)) = 1
    /\ Len(Domain(workspace_calls[2].name)) = 22
    /\ workspace_calls[2].error = "ValueError"

\* The domain of " Dev  Ops " is "dev-ops--misr".
DomainExample ==
    Domain(DevOps) =
        <<"d", "e", "v", "-", "o", "p", "s", "-", "-", "m", "i", "s", "r">>

----------------------------------------------------------------------------
(* Claims about the read accessors of CSVInstructionManager.               *)

PhotoFields == {"user_email", "photo_url"}

\* Line i gives no cell to some field AssignPhotoInstructionEntry requires:
\* the header has no such column, or the line ends before it.
LacksRequiredField(i) ==
    \E f \in PhotoFields :
        ~ \E n \in 1..Len(file.header) :
              file.header[n] = f /\ n <= Len(file.rows[i])

\* Line i carries a column the entry does not declare: one the header names,
\* or a surplus cell.
CarriesUndeclaredColumn(i) ==
    \/ \E n \in 1..Len(file.header) : file.header[n] \notin PhotoFields
    \/ Len(file.rows[i]) > Len(file.header)

DataLines(n) == {i \in 1..n : file.rows[i] # <<>>}

(* C11: a read accessor never silently skips a malformed row: when a row   *)
(* lacks a field the instruction shape requires, the rows before it are    *)
(* yielded in file order, constructing that row raises an error that ends  *)
(* the sequence, and no later row is yielded.                              *)
C11_MalformedRowEndsSequence ==
    LET consumed == IF pc = "crashed" THEN DataLines(row_idx - 1)
                    ELSE DataLines(row_idx)
    IN  /\ {yielded[k].line : k \in 1..Len(yielded)} = consumed
        /\ \A k \in 1..Len(yielded) : \A l \in 1..Len(yielded) :
             k < l => yielded[k].line < yielded[l].line
        /\ \A k \in 1..Len(yielded) :
             /\ yielded[k].user_email = Cell(yielded[k].line, "user_email")
             /\ yielded[k].photo_url = Cell(yielded[k].line, "photo_url")
        /\ \A i \in DataLines(Len(file.rows)) :
             LacksRequiredField(i) =>
                /\ \A k \in 1..Len(yielded) : yielded[k].line < i
                /\ pc # "done"
                /\ row_idx >= i =>
                     /\ pc = "crashed"
                     /\ row_idx = i
                     /\ result.outcome = "raise"

\* The second of three lines is one cell short: the first was yielded, the
\* error was raised at the second, and the third, a whole line, was not
\* yielded.
C11_Witness ==
    /\ Len(file.rows) = 3
    /\ file.header = PhotoHeader
    /\ Len(file.rows[1]) = 2
    /\ Len(file.rows[2]) = 1
    /\ Len(file.rows[3]) = 2
    /\ pc = "crashed"
    /\ row_idx = 2
    /\ Len(yielded) = 1
    /\ result.error = "ValidationError"

(* C12: instruction rows have a strict schema: a row that carries a column *)
(* the instruction shape does not declare, even with all required fields   *)
(* present, is rejected at construction and is not yielded.                *)
C12_UndeclaredColumnRejected ==
    \A k \in 1..Len(yielded) : ~CarriesUndeclaredColumn(yielded[k].line)

\* What the code does reject: a line with more cells than the header has
\* columns (its surplus cells come under the key None).
C12_SurplusCellRejected ==
    \A k \in 1..Len(yielded) :
        Len(file.rows[yielded[k].line]) <= Len(file.header)

----------------------------------------------------------------------------
(* Claims about the write mode of CSVInstructionManager.                   *)

(* C13: add_entry is accepted only inside the open_for_writing scope:      *)
(* before the scope is entered and after it exits normally (rows written   *)
(* or not) the file handle and the writer are reset to not-open and        *)
(* add_entry of a correctly shaped entry fails with the no-file-opened     *)
(* error; in any state add_entry of an entry that is not an                *)
(* AddUserInstructionEntry fails with the type-mismatch error and writes   *)
(* nothing.                                                                *)
C13_AddEntryOnlyInsideScope ==
    /\ scope \in {"before", "exited"} =>
         current_file = None /\ csv_dict_writer = None
    /\ result.op = "add_entry" =>
         LET shaped == result.entry.type = "AddUserInstructionEntry"
         IN  /\ ~shaped =>
                  /\ result.outcome = "raise"
                  /\ result.error = "Expected InstructionEntry"
                  /\ written = result.written_before
             /\ (shaped /\ result.scope \in {"before", "exited"}) =>
                  /\ result.outcome = "raise"
                  /\ result.error = "No file opened"
                  /\ written = result.written_before
             /\ (shaped /\ result.scope = "inside") =>
                  /\ result.outcome = "return"
                  /\ written = Append(result.written_before, result.entry.row)
             /\ result.outcome = "return" => result.scope = "inside"

\* After a scope in which a row was written has exited normally, add_entry
\* of a correctly shaped entry was refused with the no-file-opened error.
C13_Witness ==
    /\ result.op = "add_entry"
    /\ result.scope = "exited"
    /\ result.entry.type = "AddUserInstructionEntry"
    /\ Len(result.written_before) = 2
    /\ result.error = "No file opened"

C13_WitnessTypeMismatchInside ==
    /\ result.op = "add_entry"
    /\ result.scope = "inside"
    /\ result.entry.type # "AddUserInstructionEntry"
    /\ result.error = "Expected InstructionEntry"

====
